---- MODULE Spec2Model ----
(***************************************************************************)
(* Order service of aws-apigateway-lambda-cdk: the REST API (request       *)
(* validators and models of the CDK stack), the three Lambda handlers      *)
(* createOrder, updateInstallments and getOrdersByClient, and the DynamoDB *)
(* table they share.                                                       *)
(*                                                                         *)
(* A handler runs without interruption up to its single `await             *)
(* client.send(...)`; the table executes the command atomically and the    *)
(* handler resumes with the reply.  Each handler instance is therefore     *)
(* modelled by two steps: the invocation (up to the await) and the         *)
(* resumption (from the reply to the returned response).                   *)
(***************************************************************************)
EXTENDS Integers, Sequences, FiniteSets, Bags, TLC

(***************************************************************************)
(* Bounds of the model.                                                    *)
(***************************************************************************)
MaxTime == 2      \* the clock (Date.now(), in ms) runs over 1..MaxTime
MaxOrders == 2    \* at most MaxOrders orders are created
Denom == 2        \* JSON numbers are the multiples of 1/Denom: v stands for v/Denom

(***************************************************************************)
(* JavaScript numbers.  A number x is represented by the integer           *)
(* x * Denom, so that the non-integer numbers a JSON body may carry        *)
(* (type "number" in the request models) are part of the model.            *)
(***************************************************************************)
Num(k) == k * Denom
IsInteger(v) == v % Denom = 0
Frac(k) == k * Denom + 1          \* a number strictly between k and k + 1
NaN == 0 - 1                      \* the model has no negative numbers

Digits == <<"0", "1", "2", "3", "4", "5", "6", "7", "8", "9">>
IsDigit(ch) == \E d \in 1..10 : Digits[d] = ch
DigitVal(ch) == (CHOOSE d \in 1..10 : Digits[d] = ch) - 1

RECURSIVE ParseDigits(_, _, _)
ParseDigits(s, i, acc) ==
  IF i > Len(s) \/ ~IsDigit(s[i]) THEN acc
  ELSE ParseDigits(s, i + 1, acc * 10 + DigitVal(s[i]))

\* parseInt(string): the longest prefix of decimal digits, NaN when there is
\* none.  Strings are sequences of characters.
parseInt(s) ==
  IF Len(s) = 0 \/ ~IsDigit(s[1]) THEN NaN ELSE Num(ParseDigits(s, 1, 0))

RECURSIVE DecimalString(_)
\* the decimal string of a natural number, as a client writes it in a path
DecimalString(n) ==
  IF n < 10 THEN <<Digits[n + 1]>>
  ELSE DecimalString(n \div 10) \o <<Digits[(n % 10) + 1]>>

Restrict(f, S) == [x \in S |-> f[x]]
EmptyObject == [x \in {} |-> 0]
Has(obj, field) == field \in DOMAIN obj

(***************************************************************************)
(* DynamoDB attribute values (marshall / unmarshall of util-dynamodb).     *)
(***************************************************************************)
AttrN(v) == <<"N", v>>
AttrS(s) == <<"S", s>>
AttrL(l) == <<"L", l>>
AttrM(m) == <<"M", m>>

\* new Date().toISOString()
toISOString(t) == <<"ISO-8601", t>>

\* marshall of one element of order.items
marshallOrderItem(it) ==
  AttrM([productId |-> AttrN(it.productId), quantity |-> AttrN(it.quantity)])

RECURSIVE unmarshallValue(_)
unmarshallValue(av) ==
  CASE av[1] = "N" -> av[2]
    [] av[1] = "S" -> av[2]
    [] av[1] = "L" -> [i \in DOMAIN av[2] |-> unmarshallValue(av[2][i])]
    [] av[1] = "M" -> [a \in DOMAIN av[2] |-> unmarshallValue(av[2][a])]

unmarshall(item) == [a \in DOMAIN item |-> unmarshallValue(item[a])]

\* marshall throws on the special numeric value NaN
marshallThrows(numbers) == NaN \in numbers

(***************************************************************************)
(* The table of the stack and the three commands the handlers send.        *)
(***************************************************************************)
TableKeySchema == [partitionKey |-> "ClientId", sortKey |-> "OrderId"]

KeyAttributes == {TableKeySchema.partitionKey, TableKeySchema.sortKey}

KeyOf(item) == <<item[TableKeySchema.partitionKey], item[TableKeySchema.sortKey]>>

IsNumberKey(obj) == \A a \in KeyAttributes : obj[a][1] = "N"

RECURSIVE SortBySortKey(_)
\* the items of one partition in ascending sort-key order
SortBySortKey(items) ==
  IF items = {} THEN <<>>
  ELSE LET first == CHOOSE i \in items :
                      \A j \in items :
                        i[TableKeySchema.sortKey][2] <= j[TableKeySchema.sortKey][2]
       IN  <<first>> \o SortBySortKey(items \ {first})

\* PutItemCommand: replaces the whole item stored under the item's key
PutItem(table, cmd) ==
  IF KeyAttributes \subseteq DOMAIN cmd.Item /\ IsNumberKey(cmd.Item)
  THEN [error |-> "none",
        table |-> {i \in table : KeyOf(i) # KeyOf(cmd.Item)} \cup {cmd.Item},
        Items |-> <<>>]
  ELSE [error |-> "ValidationException", table |-> table, Items |-> <<>>]

\* UpdateItemCommand with a SET expression: the key must be exactly the
\* table's key schema; the named attributes are set on the stored item, or on
\* a new item made of the key alone when none is stored
UpdateItem(table, cmd) ==
  IF DOMAIN cmd.Key = KeyAttributes /\ IsNumberKey(cmd.Key)
  THEN LET stored == {i \in table : KeyOf(i) = KeyOf(cmd.Key)}
           old == IF stored = {} THEN cmd.Key ELSE CHOOSE i \in stored : TRUE
           new == [a \in DOMAIN old \cup DOMAIN cmd.Set |->
                     IF a \in DOMAIN cmd.Set THEN cmd.Set[a] ELSE old[a]]
       IN  [error |-> "none", table |-> (table \ stored) \cup {new},
            Items |-> <<>>]
  ELSE [error |-> "ValidationException", table |-> table, Items |-> <<>>]

\* QueryCommand: the key condition must name the partition key; the filter
\* is applied to the items read from the partition
QueryFilter(item, filter) ==
  \A a \in DOMAIN filter : a \in DOMAIN item /\ item[a] = filter[a]

Query(table, cmd) ==
  IF cmd.KeyAttribute = TableKeySchema.partitionKey
  THEN LET partition == {i \in table : i[cmd.KeyAttribute] = cmd.KeyValue}
           matching == {i \in partition : QueryFilter(i, cmd.Filter)}
       IN  [error |-> "none", table |-> table, Items |-> SortBySortKey(matching)]
  ELSE [error |-> "ValidationException", table |-> table, Items |-> <<>>]

Execute(table, cmd) ==
  CASE cmd.command = "PutItem" -> PutItem(table, cmd)
    [] cmd.command = "UpdateItem" -> UpdateItem(table, cmd)
    [] cmd.command = "Query" -> Query(table, cmd)

(***************************************************************************)
(* API Gateway: request models and request validators of the stack.        *)
(***************************************************************************)
VALID_PAYMENT_METHODS == <<"credit_card", "debit_card", "pix">>

\* CreateOrderModel without `minItems: 1`
CreateOrderModel_noMinItems(body) ==
  /\ {"clientId", "items", "paymentMethod", "installments"} \subseteq DOMAIN body
  /\ \A i \in DOMAIN body["items"] :
       /\ {"productId", "quantity"} \subseteq DOMAIN body["items"][i]
       /\ body["items"][i]["quantity"] >= Num(1)
  /\ body["paymentMethod"] \in {"credit_card", "debit_card", "pix"}
  /\ body["installments"] >= Num(1)

\* CreateOrderModel (JSON schema draft 4)
CreateOrderModel(body) ==
  /\ {"clientId", "items", "paymentMethod", "installments"} \subseteq DOMAIN body
  /\ Len(body["items"]) >= 1
  /\ \A i \in DOMAIN body["items"] :
       /\ {"productId", "quantity"} \subseteq DOMAIN body["items"][i]
       /\ body["items"][i]["quantity"] >= Num(1)
  /\ body["paymentMethod"] \in {"credit_card", "debit_card", "pix"}
  /\ body["installments"] >= Num(1)

\* UpdateInstallmentsModel
UpdateInstallmentsModel(body) ==
  /\ "installments" \in DOMAIN body
  /\ body["installments"] >= Num(1)

\* the request validator attached to each method
RequestValidator(ev) ==
  CASE ev.route = "POST /" -> CreateOrderModel(ev.body)
    [] ev.route = "PATCH /orders/{clientId}/{orderId}" ->
         /\ {"clientId", "orderId"} \subseteq DOMAIN ev.pathParameters
         /\ UpdateInstallmentsModel(ev.body)
    [] ev.route = "GET /orders/{clientId}" -> TRUE

BadRequestResponse == [statusCode |-> 400, body |-> [message |-> "Invalid request"]]

(***************************************************************************)
(* State.                                                                  *)
(***************************************************************************)
VARIABLES
  table,     \* the items of the DynamoDB table
  now,       \* the clock, in milliseconds
  slot,      \* per handler instance: idle, awaiting the table, or returned
  created    \* the bag of the orders of the 201 responses

vars == <<table, now, slot, created>>

Procs == {1, 2}
Sequential == {1}

Idle == [pc |-> "idle"]

Returned(ev, calls, caught, response) ==
  [pc |-> "done", event |-> ev, calls |-> calls, caught |-> caught,
   response |-> response]

\* a catch block that returns the caught error to the caller
HandlerCatch_exposingCause(err) ==
  [statusCode |-> 500, body |-> [success |-> FALSE, error |-> err]]

\* the catch block of each handler: the error is logged, the response is generic
HandlerCatch(err) ==
  [statusCode |-> 500,
   body |-> [success |-> FALSE, error |-> "Erro interno do servidor"]]

ClientError(message) ==
  [statusCode |-> 400, body |-> [success |-> FALSE, error |-> message]]

\* !value of a path parameter: undefined or the empty string
MissingPath(params, name) == ~Has(params, name) \/ Len(params[name]) = 0

\* !value of a query-string parameter
MissingQuery(params, name) == ~Has(params, name) \/ params[name] = ""

Pending(route) ==
  Cardinality({p \in DOMAIN slot :
                 slot[p].pc = "await" /\ slot[p].event.route = route})

(***************************************************************************)
(* createOrder.ts                                                          *)
(***************************************************************************)
TimeScale == 1000
RandomScale == 1000

generateOrderId(t, r) == Num(t * TimeScale + r)

\* an item that does not carry the installments of the request
createOrderItem_fixedInstallments(order, orderId, t) ==
  [ClientId |-> AttrN(order["clientId"]),
   OrderId |-> AttrN(orderId),
   Items |-> AttrL([i \in DOMAIN order["items"] |->
                      marshallOrderItem(order["items"][i])]),
   PaymentMethod |-> AttrS(order["paymentMethod"]),
   Installments |-> AttrN(Num(1)),
   CreatedAt |-> AttrS(toISOString(t))]

\* an item stored under an id that is not the generated one
createOrderItem_otherOrderId(order, orderId, t) ==
  [ClientId |-> AttrN(order["clientId"]),
   OrderId |-> AttrN(Num(TimeScale)),
   Items |-> AttrL([i \in DOMAIN order["items"] |->
                      marshallOrderItem(order["items"][i])]),
   PaymentMethod |-> AttrS(order["paymentMethod"]),
   Installments |-> AttrN(order["installments"]),
   CreatedAt |-> AttrS(toISOString(t))]

createOrderItem(order, orderId, t) ==
  [ClientId |-> AttrN(order["clientId"]),
   OrderId |-> AttrN(orderId),
   Items |-> AttrL([i \in DOMAIN order["items"] |->
                      marshallOrderItem(order["items"][i])]),
   PaymentMethod |-> AttrS(order["paymentMethod"]),
   Installments |-> AttrN(order["installments"]),
   CreatedAt |-> AttrS(toISOString(t))]

\* the handler up to `await client.send(new PutItemCommand(...))`
CreateOrder(p, ev, r) ==
  /\ slot[p].pc = "idle"
  /\ ev.route = "POST /"
  /\ r \in 0..(RandomScale - 1)
  /\ IF ~RequestValidator(ev)
     THEN slot' = [slot EXCEPT ![p] = Returned(ev, 0, "none", BadRequestResponse)]
     ELSE /\ BagCardinality(created) + Pending("POST /") < MaxOrders
          /\ LET orderId == generateOrderId(now, r)
             IN  slot' = [slot EXCEPT ![p] =
                   [pc |-> "await", event |-> ev, orderId |-> orderId,
                    cmd |-> [command |-> "PutItem",
                             Item |-> createOrderItem(ev.body, orderId, now)]]]
  /\ UNCHANGED <<table, now, created>>

createOrderResponse(s) ==
  [statusCode |-> 201,
   body |-> [success |-> TRUE, orderId |-> s.orderId,
             clientId |-> s.event.body["clientId"]]]

(***************************************************************************)
(* updateInstallments.ts                                                   *)
(***************************************************************************)
\* a key that names the partition key as the table does
updateInstallmentsKey_tableKeyName(clientId, orderId) ==
  [ClientId |-> AttrN(parseInt(clientId)), OrderId |-> AttrN(parseInt(orderId))]

updateInstallmentsKey(clientId, orderId) ==
  [ClientID |-> AttrN(parseInt(clientId)), OrderId |-> AttrN(parseInt(orderId))]

\* the handler up to `await dynamoClient.send(new UpdateItemCommand(...))`
UpdateInstallments(p, ev) ==
  /\ slot[p].pc = "idle"
  /\ ev.route = "PATCH /orders/{clientId}/{orderId}"
  /\ LET params == ev.pathParameters
         payload == ev.body
     IN  slot' = [slot EXCEPT ![p] =
           IF ~RequestValidator(ev)
           THEN Returned(ev, 0, "none", BadRequestResponse)
           ELSE IF MissingPath(params, "clientId") \/ MissingPath(params, "orderId")
           THEN Returned(ev, 0, "none",
                  ClientError("clientId e orderId são obrigatórios no path"))
           ELSE IF \/ marshallThrows({parseInt(params["clientId"]),
                                      parseInt(params["orderId"])})
                   \/ ~Has(payload, "installments")
           THEN Returned(ev, 0, "Error", HandlerCatch("Error"))
           ELSE [pc |-> "await", event |-> ev,
                 cmd |-> [command |-> "UpdateItem",
                          Key |-> updateInstallmentsKey(params["clientId"],
                                                        params["orderId"]),
                          Set |-> [Installments |-> AttrN(payload["installments"]),
                                   UpdatedAt |-> AttrS(toISOString(now))]]]]
  /\ UNCHANGED <<table, now, created>>

updateInstallmentsResponse(s) ==
  [statusCode |-> 200,
   body |-> [success |-> TRUE,
             clientId |-> parseInt(s.event.pathParameters["clientId"]),
             orderId |-> parseInt(s.event.pathParameters["orderId"]),
             installments |-> s.event.body["installments"]]]

(***************************************************************************)
(* getOrdersByClient.ts                                                    *)
(***************************************************************************)
Includes(seq, x) == \E i \in DOMAIN seq : seq[i] = x

\* a query that never carries the FilterExpression
getOrdersQuery_unfiltered(clientIdNumber, query) ==
  [command |-> "Query",
   KeyAttribute |-> "ClientId",
   KeyValue |-> AttrN(clientIdNumber),
   Filter |-> EmptyObject]

getOrdersQuery(clientIdNumber, query) ==
  [command |-> "Query",
   KeyAttribute |-> "ClientId",
   KeyValue |-> AttrN(clientIdNumber),
   Filter |-> IF MissingQuery(query, "paymentMethod") THEN EmptyObject
              ELSE [PaymentMethod |-> AttrS(query["paymentMethod"])]]

\* the handler up to `await client.send(new QueryCommand(...))`
GetOrdersByClient(p, ev) ==
  /\ slot[p].pc = "idle"
  /\ ev.route = "GET /orders/{clientId}"
  /\ LET params == ev.pathParameters
         query == ev.queryStringParameters
     IN  slot' = [slot EXCEPT ![p] =
           IF ~RequestValidator(ev)
           THEN Returned(ev, 0, "none", BadRequestResponse)
           ELSE IF MissingPath(params, "clientId")
           THEN Returned(ev, 0, "none", ClientError("clientId é obrigatório no path"))
           ELSE IF parseInt(params["clientId"]) = NaN
           THEN Returned(ev, 0, "none",
                  ClientError("clientId deve ser um número válido"))
           ELSE IF /\ ~MissingQuery(query, "paymentMethod")
                   /\ ~Includes(VALID_PAYMENT_METHODS, query["paymentMethod"])
           THEN Returned(ev, 0, "none",
                  ClientError("paymentMethod inválido. Valores aceitos: credit_card, debit_card, pix"))
           ELSE [pc |-> "await", event |-> ev,
                 cmd |-> getOrdersQuery(parseInt(params["clientId"]), query)]]
  /\ UNCHANGED <<table, now, created>>

getOrdersResponse(s, reply) ==
  LET orders == [i \in DOMAIN reply.Items |-> unmarshall(reply.Items[i])]
      clientIdNumber == parseInt(s.event.pathParameters["clientId"])
      query == s.event.queryStringParameters
  IN  [statusCode |-> 200,
       body |-> IF MissingQuery(query, "paymentMethod")
                THEN [success |-> TRUE, clientId |-> clientIdNumber,
                      count |-> Len(orders), orders |-> orders]
                ELSE [success |-> TRUE, clientId |-> clientIdNumber,
                      paymentMethod |-> query["paymentMethod"],
                      count |-> Len(orders), orders |-> orders]]

(***************************************************************************)
(* The table's reply and the rest of the handler.                          *)
(***************************************************************************)
SuccessResponse(s, reply) ==
  CASE s.event.route = "POST /" -> createOrderResponse(s)
    [] s.event.route = "PATCH /orders/{clientId}/{orderId}" ->
         updateInstallmentsResponse(s)
    [] s.event.route = "GET /orders/{clientId}" -> getOrdersResponse(s, reply)

CreatedOrder(s) ==
  [clientId |-> s.event.body["clientId"], orderId |-> s.orderId,
   items |-> s.event.body["items"],
   paymentMethod |-> s.event.body["paymentMethod"],
   installments |-> s.event.body["installments"],
   createdAt |-> unmarshallValue(s.cmd.Item.CreatedAt)]

\* the table executes the command; the handler returns its response, or
\* catches the table's error and returns 500
StoreReplies(p) ==
  /\ slot[p].pc = "await"
  /\ LET s == slot[p]
         reply == Execute(table, s.cmd)
     IN  /\ table' = reply.table
         /\ slot' = [slot EXCEPT ![p] =
              IF reply.error = "none"
              THEN Returned(s.event, 1, "none", SuccessResponse(s, reply))
              ELSE Returned(s.event, 1, reply.error, HandlerCatch(reply.error))]
         /\ created' = IF reply.error = "none" /\ s.event.route = "POST /"
                       THEN created (+) SetToBag({CreatedOrder(s)})
                       ELSE created
  /\ UNCHANGED now

StoreFaults == {"ProvisionedThroughputExceededException"}

\* the send fails (throttling, connectivity, permissions): nothing is
\* written, the handler catches the error and returns 500
StoreFails(p, fault) ==
  /\ slot[p].pc = "await"
  /\ fault \in StoreFaults
  /\ slot' = [slot EXCEPT ![p] =
       Returned(slot[p].event, 1, fault, HandlerCatch(fault))]
  /\ UNCHANGED <<table, now, created>>

\* the response has been delivered; the instance serves the next request
Return(p) ==
  /\ slot[p].pc = "done"
  /\ slot' = [slot EXCEPT ![p] = Idle]
  /\ UNCHANGED <<table, now, created>>

Tick ==
  /\ now < MaxTime
  /\ now' = now + 1
  /\ UNCHANGED <<table, slot, created>>

(***************************************************************************)
(* Requests.                                                               *)
(***************************************************************************)
Event(route, params, query, body) ==
  [route |-> route, pathParameters |-> params, queryStringParameters |-> query,
   body |-> body]

OrderItem(productId, quantity) == [productId |-> productId, quantity |-> quantity]

\* the order of the spec's scenario, a second order of the same client and
\* an order whose quantity and installments are not integers
ScenarioOrder ==
  [clientId |-> Num(1), items |-> <<OrderItem(Num(10), Num(2))>>,
   paymentMethod |-> "pix", installments |-> Num(3)]

AcceptedOrders ==
  { ScenarioOrder,
    [clientId |-> Num(1), items |-> <<OrderItem(Num(11), Num(1))>>,
     paymentMethod |-> "credit_card", installments |-> Num(1)],
    [clientId |-> Num(2), items |-> <<OrderItem(Num(10), Frac(1))>>,
     paymentMethod |-> "pix", installments |-> Frac(1)] }

RejectedOrders ==
  { Restrict(ScenarioOrder, DOMAIN ScenarioOrder \ {f}) : f \in DOMAIN ScenarioOrder }
  \cup { [ScenarioOrder EXCEPT !.items = <<>>],
         [ScenarioOrder EXCEPT !.items = <<OrderItem(Num(10), 0)>>],
         [ScenarioOrder EXCEPT !.items = <<OrderItem(Num(10), Num(2)), OrderItem(Num(11), 1)>>],
         [ScenarioOrder EXCEPT !.paymentMethod = "cash"],
         [ScenarioOrder EXCEPT !.installments = 0],
         [ScenarioOrder EXCEPT !.installments = 1] }

CreateEvents ==
  { Event("POST /", EmptyObject, EmptyObject, b) : b \in AcceptedOrders \cup RejectedOrders }

\* the two ends of the range of Math.floor(Math.random() * 1000)
RandomDraws == {0, RandomScale - 1}

\* the decimal strings of the ids of the created orders, and of one that is not
CreatedPaths ==
  { [clientId |-> DecimalString(e.clientId \div Denom),
     orderId |-> DecimalString(e.orderId \div Denom)] : e \in BagToSet(created) }

UpdatePaths ==
  CreatedPaths
  \cup { [clientId |-> c, orderId |-> <<"7">>] :
           c \in { <<>>, <<"1">>, <<"a">>, <<"1", "a">> } }
  \cup { [clientId |-> <<"1">>, orderId |-> o] : o \in { <<>>, <<"a">> } }
  \cup { EmptyObject, [clientId |-> <<"1">>], [orderId |-> <<"7">>] }

UpdateBodies ==
  { EmptyObject, [installments |-> 0], [installments |-> Num(6)],
    [installments |-> Frac(1)] }

UpdateEvents ==
  { Event("PATCH /orders/{clientId}/{orderId}", params, EmptyObject, b) :
      params \in UpdatePaths, b \in UpdateBodies }

ListPaths ==
  { EmptyObject }
  \cup { [clientId |-> c] :
           c \in { <<>>, <<"1">>, <<"2">>, <<"a">>, <<"1", "a">> } }

QueryObjects ==
  { EmptyObject }
  \cup { [paymentMethod |-> m] :
           m \in {"", "credit_card", "debit_card", "pix", "cash"} }

ListEvents ==
  { Event("GET /orders/{clientId}", params, q, EmptyObject) :
      params \in ListPaths, q \in QueryObjects }

(***************************************************************************)
(* Specifications.                                                         *)
(***************************************************************************)
Init ==
  /\ table = {}
  /\ now = 1
  /\ slot = [p \in Procs |-> Idle]
  /\ created = EmptyBag

\* one request at a time
Next ==
  \/ \E p \in Sequential, ev \in CreateEvents, r \in RandomDraws :
       CreateOrder(p, ev, r)
  \/ \E p \in Sequential, ev \in UpdateEvents : UpdateInstallments(p, ev)
  \/ \E p \in Sequential, ev \in ListEvents : GetOrdersByClient(p, ev)
  \/ \E p \in Sequential : StoreReplies(p)
  \/ \E p \in Sequential, fault \in StoreFaults : StoreFails(p, fault)
  \/ \E p \in Sequential : Return(p)
  \/ Tick

Spec == Init /\ [][Next]_vars

\* concurrent handler instances serving accepted requests of one client
ConcurrentCreateEvents ==
  { Event("POST /", EmptyObject, EmptyObject, b) :
      b \in {o \in AcceptedOrders : o.clientId = Num(1)} }

ConcurrentUpdateEvents ==
  { Event("PATCH /orders/{clientId}/{orderId}", params, EmptyObject,
          [installments |-> n]) :
      params \in CreatedPaths, n \in {Num(2), Num(6)} }

ConcurrentListEvents ==
  { Event("GET /orders/{clientId}", [clientId |-> c], EmptyObject, EmptyObject) :
      c \in {<<"1">>} }

NextConcurrent ==
  \/ \E p \in Procs, ev \in ConcurrentCreateEvents, r \in RandomDraws :
       CreateOrder(p, ev, r)
  \/ \E p \in Procs, ev \in ConcurrentUpdateEvents : UpdateInstallments(p, ev)
  \/ \E p \in Procs, ev \in ConcurrentListEvents : GetOrdersByClient(p, ev)
  \/ \E p \in Procs : StoreReplies(p)
  \/ \E p \in Procs : Return(p)
  \/ Tick

SpecConcurrent == Init /\ [][NextConcurrent]_vars

(***************************************************************************)
(* Properties.                                                             *)
(***************************************************************************)
Patch == "PATCH /orders/{clientId}/{orderId}"
Get == "GET /orders/{clientId}"
Post == "POST /"

Done(p, route) == slot[p].pc = "done" /\ slot[p].event.route = route
Active(p, route) == slot[p].pc # "idle" /\ slot[p].event.route = route
NoStoreFault(p) == slot[p].caught \notin StoreFaults
PaymentMethods == {"credit_card", "debit_card", "pix"}

\* the orders a ListOrdersByClient(c) without filter reads from the table
Listed(c) ==
  LET reply == Query(table, getOrdersQuery(c, EmptyObject))
  IN  { unmarshall(reply.Items[i]) : i \in DOMAIN reply.Items }

\* C1: an UpdateInstallments(c, o, {installments: n}), n >= 1, on an order
\* that a CreateOrder wrote returns 200 {success, clientId c, orderId o,
\* installments n}, and a ListOrdersByClient(c) then shows the order with
\* installments n (the table accepting the command).
C1_UpdateThenList ==
  \A p \in Procs :
    ( /\ Done(p, Patch)
      /\ NoStoreFault(p)
      /\ {"clientId", "orderId"} \subseteq DOMAIN slot[p].event.pathParameters
      /\ Has(slot[p].event.body, "installments")
      /\ slot[p].event.body["installments"] >= Num(1)
      /\ \E e \in BagToSet(created) :
           /\ IsInteger(e.clientId)
           /\ slot[p].event.pathParameters["clientId"]
                = DecimalString(e.clientId \div Denom)
           /\ slot[p].event.pathParameters["orderId"]
                = DecimalString(e.orderId \div Denom) )
    => LET c == parseInt(slot[p].event.pathParameters["clientId"])
           o == parseInt(slot[p].event.pathParameters["orderId"])
           n == slot[p].event.body["installments"]
       IN  /\ slot[p].response.statusCode = 200
           /\ slot[p].response.body.success
           /\ slot[p].response.body.clientId = c
           /\ slot[p].response.body.orderId = o
           /\ slot[p].response.body.installments = n
           /\ \E order \in Listed(c) : order.OrderId = o /\ order.Installments = n

\* the number of orders created for client c
CreatedFor(c) ==
  BagCardinality([e \in {o \in BagToSet(created) : o.clientId = c} |-> created[e]])

\* C2: a CreateOrder with a valid payload returns 201 {success, orderId: a
\* number, clientId}; when it is the only order created for client c, a
\* ListOrdersByClient(c) without filter then returns exactly one order, with
\* the clientId, items, paymentMethod and installments of the request and the
\* orderId of the response (the table accepting both commands).
C2_CreateThenList ==
  \A p \in Procs :
    /\ ( Done(p, Post) /\ CreateOrderModel(slot[p].event.body) /\ NoStoreFault(p) )
       => /\ slot[p].response.statusCode = 201
          /\ slot[p].response.body.success
          /\ slot[p].response.body.clientId = slot[p].event.body["clientId"]
          /\ slot[p].response.body.orderId >= 0
          /\ IsInteger(slot[p].response.body.orderId)
          /\ \E e \in BagToSet(created) :
               /\ e.orderId = slot[p].response.body.orderId
               /\ e.clientId = slot[p].response.body.clientId
    /\ ( /\ Done(p, Get)
         /\ NoStoreFault(p)
         /\ ~MissingPath(slot[p].event.pathParameters, "clientId")
         /\ ~Has(slot[p].event.queryStringParameters, "paymentMethod")
         /\ CreatedFor(parseInt(slot[p].event.pathParameters["clientId"])) = 1 )
       => LET c == parseInt(slot[p].event.pathParameters["clientId"])
              e == CHOOSE o \in BagToSet(created) : o.clientId = c
              body == slot[p].response.body
          IN  /\ slot[p].response.statusCode = 200
              /\ body.count = 1
              /\ Len(body.orders) = 1
              /\ body.orders[1].ClientId = e.clientId
              /\ body.orders[1].OrderId = e.orderId
              /\ body.orders[1].Items = e.items
              /\ body.orders[1].PaymentMethod = e.paymentMethod
              /\ body.orders[1].Installments = e.installments

\* a list of client 1 returned the scenario's single order
C2_Witness ==
  \E p \in Procs :
    /\ Done(p, Get)
    /\ slot[p].response.statusCode = 200
    /\ ~Has(slot[p].event.queryStringParameters, "paymentMethod")
    /\ BagCardinality(created) = 1
    /\ \E e \in BagToSet(created) :
         /\ e.items = ScenarioOrder.items
         /\ e.installments = ScenarioOrder.installments
         /\ slot[p].response.body.clientId = e.clientId
    /\ slot[p].response.body.count = 1

\* C3: the orderId values of the successful CreateOrder calls are pairwise
\* distinct, so no two creates produce the same (clientId, orderId) key.
C3_DistinctOrderIds ==
  /\ \A e \in BagToSet(created) : CopiesIn(e, created) = 1 /\ IsInteger(e.orderId)
  /\ \A e1, e2 \in BagToSet(created) :
       e1 # e2 => /\ e1.orderId # e2.orderId
                  /\ <<e1.clientId, e1.orderId>> # <<e2.clientId, e2.orderId>>

\* C4: no step changes an attribute of a stored order other than Installments
\* and UpdatedAt: every stored order keeps its ClientId, OrderId, Items,
\* PaymentMethod and CreatedAt.
C4_CreatedOrdersImmutable ==
  [][ \A item \in table :
        \E after \in table' :
          \A a \in DOMAIN item \ {"Installments", "UpdatedAt"} :
            a \in DOMAIN after /\ after[a] = item[a] ]_vars

\* C5: every stored record has a non-empty Items, positive integer
\* quantities and Installments, and a PaymentMethod among the three values.
C5_WellFormedRecords ==
  \A item \in table :
    /\ {"Items", "PaymentMethod", "Installments"} \subseteq DOMAIN item
    /\ LET order == unmarshall(item)
       IN  /\ Len(order.Items) >= 1
           /\ \A i \in DOMAIN order.Items :
                /\ IsInteger(order.Items[i].quantity)
                /\ order.Items[i].quantity >= Num(1)
           /\ IsInteger(order.Installments)
           /\ order.Installments >= Num(1)
           /\ order.PaymentMethod \in PaymentMethods

ViolatesCreateContract(body) ==
  \/ \E f \in {"clientId", "items", "paymentMethod", "installments"} : ~Has(body, f)
  \/ Has(body, "items") /\ Len(body["items"]) = 0
  \/ Has(body, "items") /\ \E i \in DOMAIN body["items"] :
                             body["items"][i]["quantity"] < Num(1)
  \/ Has(body, "installments") /\ body["installments"] < Num(1)
  \/ Has(body, "paymentMethod") /\ body["paymentMethod"] \notin PaymentMethods

\* C6: a CreateOrder whose body misses a required field, has no items, an
\* item quantity below 1, installments below 1 or an unknown paymentMethod is
\* answered 400 and no PutItem is sent for it.
C6_CreateContractEnforced ==
  \A p \in Procs :
    ( Active(p, Post) /\ ViolatesCreateContract(slot[p].event.body) )
    => /\ slot[p].pc = "done"
       /\ slot[p].response.statusCode = 400
       /\ slot[p].calls = 0

\* a create without items, or with a quantity below 1, was rejected
C6_Witness ==
  \E p \in Procs :
    /\ Done(p, Post)
    /\ Has(slot[p].event.body, "items")
    /\ \/ Len(slot[p].event.body["items"]) = 0
       \/ \E i \in DOMAIN slot[p].event.body["items"] :
            slot[p].event.body["items"][i]["quantity"] < Num(1)
    /\ slot[p].response.statusCode = 400
    /\ slot[p].calls = 0

IsNumericString(str) == Len(str) >= 1 /\ \A i \in DOMAIN str : IsDigit(str[i])

Unparseable(params, name) == MissingPath(params, name) \/ parseInt(params[name]) = NaN

\* C7: a ListOrdersByClient whose clientId is absent or not a numeric integer
\* string, and an UpdateInstallments whose clientId or orderId is absent or
\* not parseable as an integer, end in a 4xx response without a store call.
C7_PathIdentifiersValidated ==
  \A p \in Procs :
    ( \/ /\ Active(p, Get)
         /\ \/ ~Has(slot[p].event.pathParameters, "clientId")
            \/ ~IsNumericString(slot[p].event.pathParameters["clientId"])
      \/ /\ Active(p, Patch)
         /\ \/ Unparseable(slot[p].event.pathParameters, "clientId")
            \/ Unparseable(slot[p].event.pathParameters, "orderId") )
    => /\ slot[p].pc = "done"
       /\ slot[p].response.statusCode \in 400..499
       /\ slot[p].calls = 0

ValidClientPath(p) ==
  /\ ~MissingPath(slot[p].event.pathParameters, "clientId")
  /\ parseInt(slot[p].event.pathParameters["clientId"]) # NaN

FilterErrorMessage ==
  "paymentMethod inválido. Valores aceitos: credit_card, debit_card, pix"

RejectedForFilter(p) ==
  /\ slot[p].pc = "done"
  /\ slot[p].response.statusCode = 400
  /\ slot[p].response.body.error = FilterErrorMessage

\* C8: a ListOrdersByClient (with a valid clientId) whose paymentMethod query
\* value is supplied and is not credit_card, debit_card or pix returns the 400
\* that names the accepted values and sends no query; with a value of the set,
\* or without the parameter, it is not rejected for the filter.
C8_FilterValidated ==
  \A p \in Procs :
    ( Active(p, Get) /\ ValidClientPath(p) )
    => IF /\ Has(slot[p].event.queryStringParameters, "paymentMethod")
          /\ slot[p].event.queryStringParameters["paymentMethod"] \notin PaymentMethods
       THEN RejectedForFilter(p) /\ slot[p].calls = 0
       ELSE ~RejectedForFilter(p)

\* C9: a ListOrdersByClient with a numeric clientId c and an absent or valid
\* filter f returns 200 {success, clientId c, paymentMethod f only when
\* supplied, count, orders}: orders are exactly the stored records of
\* partition c (with paymentMethod f when f is supplied) and count is their
\* number, 0 with an empty sequence when none matches (the table accepting
\* the query).
C9_ListResult ==
  \A p \in Procs :
    ( /\ Done(p, Get)
      /\ ValidClientPath(p)
      /\ NoStoreFault(p)
      /\ Has(slot[p].event.queryStringParameters, "paymentMethod")
           => slot[p].event.queryStringParameters["paymentMethod"] \in PaymentMethods )
    => LET c == parseInt(slot[p].event.pathParameters["clientId"])
           q == slot[p].event.queryStringParameters
           body == slot[p].response.body
           expected == { unmarshall(item) : item \in
                         { i \in table :
                             /\ i.ClientId = AttrN(c)
                             /\ Has(q, "paymentMethod")
                                  => i.PaymentMethod = AttrS(q["paymentMethod"]) } }
       IN  /\ slot[p].response.statusCode = 200
           /\ body.success
           /\ body.clientId = c
           /\ Has(body, "paymentMethod") <=> Has(q, "paymentMethod")
           /\ Has(q, "paymentMethod") => body.paymentMethod = q["paymentMethod"]
           /\ { body.orders[i] : i \in DOMAIN body.orders } = expected
           /\ Len(body.orders) = Cardinality(expected)
           /\ body.count = Len(body.orders)

\* the scenario: the client has an order, none paid the way the filter asks
C9_Witness ==
  \E p \in Procs :
    /\ Done(p, Get)
    /\ slot[p].response.statusCode = 200
    /\ Has(slot[p].event.queryStringParameters, "paymentMethod")
    /\ slot[p].event.queryStringParameters["paymentMethod"] = "credit_card"
    /\ slot[p].response.body.count = 0
    /\ slot[p].response.body.orders = <<>>
    /\ \E item \in table :
         /\ item.ClientId = AttrN(slot[p].response.body.clientId)
         /\ item.PaymentMethod = AttrS("pix")

GenericErrorBody == [success |-> FALSE, error |-> "Erro interno do servidor"]

\* C10: when the store call fails, or an exception is raised in the handler,
\* the handler returns 500 with the generic body, has made at most one store
\* call, and the step leaves the table unchanged.
C10_StoreFailureHandled ==
  /\ [](\A p \in Procs :
          (slot[p].pc = "done" /\ slot[p].caught # "none")
          => /\ slot[p].response.statusCode = 500
             /\ slot[p].response.body = GenericErrorBody
             /\ slot[p].calls <= 1)
  /\ [][ \A p \in Procs :
           (slot[p].pc # "done" /\ slot'[p].pc = "done" /\ slot'[p].caught # "none")
           => table' = table ]_vars

\* the PutItem of a CreateOrder failed while the table already held an order
C10_Witness ==
  \E p \in Procs :
    /\ Done(p, Post)
    /\ slot[p].caught \in StoreFaults
    /\ slot[p].calls = 1
    /\ slot[p].response.statusCode = 500
    /\ table # {}

\* the step in which instance p returns its response
Completes(p) == slot[p].pc # "done" /\ slot'[p].pc = "done"

\* the items stored under the key (c, o)
StoredUnder(items, c, o) == {i \in items : KeyOf(i) = <<AttrN(c), AttrN(o)>>}

ParseablePath(params) ==
  ~Unparseable(params, "clientId") /\ ~Unparseable(params, "orderId")

\* C11: every UpdateInstallments(c, o, {installments: n}), n >= 1, on a stored
\* order reports success with installments n and leaves the stored
\* installments equal to n: the first call, and the repeated call that finds
\* n already stored (the table not failing the command).
C11_UpdateIdempotent ==
  [][ \A p \in Procs :
        ( /\ Completes(p)
          /\ slot'[p].event.route = Patch
          /\ slot'[p].caught \notin StoreFaults
          /\ ParseablePath(slot'[p].event.pathParameters)
          /\ Has(slot'[p].event.body, "installments")
          /\ slot'[p].event.body["installments"] >= Num(1)
          /\ StoredUnder(table,
                         parseInt(slot'[p].event.pathParameters["clientId"]),
                         parseInt(slot'[p].event.pathParameters["orderId"])) # {} )
        => LET c == parseInt(slot'[p].event.pathParameters["clientId"])
               o == parseInt(slot'[p].event.pathParameters["orderId"])
               n == slot'[p].event.body["installments"]
           IN  /\ slot'[p].response.statusCode = 200
               /\ slot'[p].response.body.success
               /\ slot'[p].response.body.installments = n
               /\ StoredUnder(table', c, o) # {}
               /\ \A i \in StoredUnder(table', c, o) : i.Installments = AttrN(n)
    ]_vars

C13_LastWriteWins ==
  \A p, q \in Procs :
    ( /\ p # q
      /\ Done(p, Patch)
      /\ Done(q, Patch)
      /\ slot[p].event.pathParameters = slot[q].event.pathParameters
      /\ ParseablePath(slot[p].event.pathParameters)
      /\ StoredUnder(table,
                     parseInt(slot[p].event.pathParameters["clientId"]),
                     parseInt(slot[p].event.pathParameters["orderId"])) # {} )
    => /\ slot[p].response.statusCode = 200
       /\ slot[q].response.statusCode = 200
       /\ \A i \in StoredUnder(table,
                               parseInt(slot[p].event.pathParameters["clientId"]),
                               parseInt(slot[p].event.pathParameters["orderId"])) :
            i.Installments \in { AttrN(slot[p].event.body["installments"]),
                                 AttrN(slot[q].event.body["installments"]) }

\* the key a request addresses: (clientId, generated orderId) of a
\* CreateOrder, (clientId, orderId) of the path of an UpdateInstallments
RequestKey(s) ==
  IF s.event.route = Post
  THEN <<AttrN(s.event.body["clientId"]), AttrN(s.orderId)>>
  ELSE <<AttrN(parseInt(s.event.pathParameters["clientId"])),
         AttrN(parseInt(s.event.pathParameters["orderId"]))>>

OtherRecords(items, key) == {i \in items : KeyOf(i) # key}

\* the attributes, other than Installments and UpdatedAt, stored under a key
FixedAttributes(items, key) ==
  UNION { { <<a, i[a]>> : a \in DOMAIN i \ {"Installments", "UpdatedAt"} } :
          i \in {j \in items : KeyOf(j) = key} }

\* C14: a step that completes no store call leaves the table unchanged; the
\* step that completes a ListOrdersByClient leaves it unchanged; the one that
\* completes a CreateOrder changes at most the record under (clientId,
\* generated orderId); the one that completes an UpdateInstallments changes
\* at most Installments and UpdatedAt of the record under (clientId,
\* orderId); a request answered 400 or 500 changes nothing.
C14_Frame ==
  [][ /\ (\A p \in Procs : ~(slot[p].pc = "await" /\ Completes(p))) => table' = table
      /\ \A p \in Procs :
           (slot[p].pc = "await" /\ Completes(p))
           => /\ slot[p].event.route = Get => table' = table
              /\ slot[p].event.route = Post
                   => /\ OtherRecords(table', RequestKey(slot[p]))
                           = OtherRecords(table, RequestKey(slot[p]))
                      /\ Cardinality(table' \ table) <= 1
              /\ slot[p].event.route = Patch
                   => /\ OtherRecords(table', RequestKey(slot[p]))
                           = OtherRecords(table, RequestKey(slot[p]))
                      /\ FixedAttributes(table', RequestKey(slot[p]))
                           = FixedAttributes(table, RequestKey(slot[p]))
              /\ slot'[p].response.statusCode \in {400, 500} => table' = table
    ]_vars

\* a CreateOrder was answered 201 and the table holds its order next to the
\* order stored before it
C14_Witness ==
  \E p \in Procs :
    /\ Done(p, Post)
    /\ slot[p].response.statusCode = 201
    /\ Cardinality(table) = 2
    /\ \E i \in table :
         KeyOf(i) = <<AttrN(slot[p].response.body.clientId),
                      AttrN(slot[p].response.body.orderId)>>

====
